---- MODULE Spec2Model ----
(***************************************************************************)
(* manabuild: a build driver for Go programs that link against the         *)
(* Manatee-open native library.  The module models                         *)
(*   - the version model (parse / Semver / Ge / Eq),                       *)
(*   - the derived CGO_* build flags of buildProject,                      *)
(*   - downloadManateeSrc with its mirrors, cache and unpackArchive,       *)
(*   - OperationSequence (RunOperation / Fail) and the pipeline of main.   *)
(* Strings that the code parses or formats are sequences of one-character  *)
(* strings, so that parsing and formatting are computed, not assumed.      *)
(***************************************************************************)
EXTENDS Integers, Sequences, FiniteSets, TLC

VARIABLES
    cli,                     \* the command line of the invocation (flag values, flag.Arg(1))
    fs,                      \* the file system: libraries, /opt/manatee, /tmp cache, archives
    pc,                      \* position of main
    detectedVersion,         \* main: detectedVersion
    specifiedVersion,        \* main: specifiedVersion
    manateeSrc,              \* main: *manateeSrc
    manateeLib,              \* main: *manateeLib
    shouldGenerateRunScript, \* main: shouldGenerateRunScript
    seq,                     \* the OperationSequence: currIdx, spinner, finished
    exitCode,                \* -1 while the process runs, else its exit status
    dl,                      \* the running call of downloadManateeSrc
    trace,                   \* what the run did: steps, diagnostics, external effects
    runs,                    \* number of invocations so far, this one included
    fnIn,                    \* input of the pure function under test
    fnOut                    \* its result

vars == <<cli, fs, pc, detectedVersion, specifiedVersion, manateeSrc, manateeLib,
          shouldGenerateRunScript, seq, exitCode, dl, trace, runs, fnIn, fnOut>>

(***************************************************************************)
(* Strings                                                                 *)
(***************************************************************************)
Digits == <<"0", "1", "2", "3", "4", "5", "6", "7", "8", "9">>

IsDigit(c) == \E i \in 1..10 : Digits[i] = c

DigitVal(c) == (CHOOSE i \in 1..10 : Digits[i] = c) - 1

\* strings.TrimSuffix
TrimSuffix(s, suffix) ==
    IF Len(s) >= Len(suffix)
       /\ SubSeq(s, Len(s) - Len(suffix) + 1, Len(s)) = suffix
    THEN SubSeq(s, 1, Len(s) - Len(suffix))
    ELSE s

\* strings.Split(s, sep) for a one-character separator: always at least one item
RECURSIVE Split(_, _)
Split(s, sep) ==
    IF \A i \in 1..Len(s) : s[i] # sep
    THEN <<s>>
    ELSE LET k == CHOOSE i \in 1..Len(s) :
                     s[i] = sep /\ \A j \in 1..(i - 1) : s[j] # sep
         IN <<SubSeq(s, 1, k - 1)>> \o Split(SubSeq(s, k + 1, Len(s)), sep)

RECURSIVE DigitsVal(_)
DigitsVal(s) ==
    IF s = <<>> THEN 0
    ELSE 10 * DigitsVal(SubSeq(s, 1, Len(s) - 1)) + DigitVal(s[Len(s)])

\* a conversion that reads anything that is not a number as 0
AtoiLenient(s) ==
    LET body == IF s # <<>> /\ s[1] \in {"+", "-"} THEN Tail(s) ELSE s
        ok   == body # <<>> /\ \A i \in 1..Len(body) : IsDigit(body[i])
    IN [err |-> FALSE,
        val |-> IF ~ok THEN 0
                ELSE IF s[1] = "-" THEN 0 - DigitsVal(body) ELSE DigitsVal(body)]

\* strconv.Atoi: an optional sign and at least one decimal digit
Atoi(s) ==
    LET body == IF s # <<>> /\ s[1] \in {"+", "-"} THEN Tail(s) ELSE s
        ok   == body # <<>> /\ \A i \in 1..Len(body) : IsDigit(body[i])
    IN IF ~ok THEN [err |-> TRUE, val |-> 0]
       ELSE [err |-> FALSE,
             val |-> IF s[1] = "-" THEN 0 - DigitsVal(body) ELSE DigitsVal(body)]

RECURSIVE NatDigits(_)
NatDigits(n) ==
    IF n < 10 THEN <<Digits[n + 1]>>
    ELSE NatDigits(n \div 10) \o <<Digits[(n % 10) + 1]>>

\* the %d verb of fmt
Itoa(n) == IF n < 0 THEN <<"-">> \o NatDigits(0 - n) ELSE NatDigits(n)

\* collections.SliceContains
SliceContains(slice, item) == \E i \in 1..Len(slice) : slice[i] = item

(***************************************************************************)
(* Version                                                                 *)
(***************************************************************************)
NewVersion(major, minor, patch) ==
    [Major |-> major, Minor |-> minor, Patch |-> patch, Variant |-> ""]

\* Version{}
ZeroVersion == NewVersion(0, 0, 0)

\* a rendering that leaves the patch number out
SemverWithoutPatch(v) == Itoa(v.Major) \o <<".">> \o Itoa(v.Minor)

IsZero(v) == v.Major = 0 /\ v.Minor = 0 /\ v.Patch = 0

Semver(v) == Itoa(v.Major) \o <<".">> \o Itoa(v.Minor) \o <<".">> \o Itoa(v.Patch)

\* a comparison that also holds for equal versions
GeInclusive(v, other) ==
    IF v.Major # other.Major THEN v.Major > other.Major
    ELSE IF v.Minor # other.Minor THEN v.Minor > other.Minor
    ELSE v.Patch >= other.Patch

Ge(v, other) ==
    IF v.Major # other.Major THEN v.Major > other.Major
    ELSE IF v.Minor # other.Minor THEN v.Minor > other.Minor
    ELSE v.Patch > other.Patch

Eq(v, other) ==
    v.Major = other.Major /\ v.Minor = other.Minor /\ v.Patch = other.Patch

ParseManateeVersion(str) ==
    LET v     == TrimSuffix(str, <<"-", "c", "n", "c">>)
        items == Split(v, ".")
    IN IF Len(items) < 2 \/ Len(items) > 3
       THEN [err |-> TRUE, ver |-> ZeroVersion]
       ELSE LET major == Atoi(items[1])
                minor == Atoi(items[2])
            IN IF major.err THEN [err |-> TRUE, ver |-> ZeroVersion]
               ELSE IF minor.err
               THEN [err |-> TRUE, ver |-> NewVersion(major.val, 0, 0)]
               ELSE IF Len(items) = 3
               THEN LET patch == Atoi(items[3])
                    IN [err |-> patch.err,
                        ver |-> NewVersion(major.val, minor.val, patch.val)]
               ELSE [err |-> FALSE, ver |-> NewVersion(major.val, minor.val, 0)]

S_2_167_8  == <<"2", ".", "1", "6", "7", ".", "8">>
S_2_167_10 == <<"2", ".", "1", "6", "7", ".", "1", "0">>
S_2_208    == <<"2", ".", "2", "0", "8">>
S_2_214_1  == <<"2", ".", "2", "1", "4", ".", "1">>
S_2_223_6  == <<"2", ".", "2", "2", "3", ".", "6">>
S_2_225_8  == <<"2", ".", "2", "2", "5", ".", "8">>

KnownVersions == <<S_2_167_8, S_2_167_10, S_2_208, S_2_214_1, S_2_223_6, S_2_225_8>>

\* initV2_208: the threshold release, parsed once at start-up
v2_208 == ParseManateeVersion(S_2_208).ver

(***************************************************************************)
(* Paths.  A path is [kind, ver]: the directories the program tells apart. *)
(*   none      ""                                                          *)
(*   user      a --manatee-src directory given by the operator             *)
(*   cache     /tmp/manatee-open-<ver>                                     *)
(*   usr       /usr/lib                                                    *)
(*   usrlocal  /usr/local/lib                                              *)
(*   opt       /opt/manatee/<ver>/lib                                      *)
(*   custom    a --manatee-lib directory outside /usr/local/lib            *)
(***************************************************************************)
Path(kind, ver) == [kind |-> kind, ver |-> ver]

NoPath == Path("none", <<>>)

\* fmt.Sprintf("/tmp/manatee-open-%s", ver.Semver())
OutDir(ver) == Path("cache", Semver(ver))

\* fmt.Sprintf("/opt/manatee/%s/lib", version.Semver())
OptInstPath(ver) == Path("opt", Semver(ver))

(***************************************************************************)
(* Derived build flags (buildProject).  A flag string is the sequence of   *)
(* its space-separated entries; an entry is [opt, dir, sub], e.g.          *)
(* -I<src>/finlib is ["-I", src, "finlib"] and -lmanatee is                *)
(* ["-l", NoPath, "manatee"].                                              *)
(***************************************************************************)
Entry(opt, dir, sub) == [opt |-> opt, dir |-> dir, sub |-> sub]

ExtraSubdirs == <<"finlib", "fsa3", "hat-trie">>

CxxFlags(src) ==
    <<Entry("-std", NoPath, "c++14"), Entry("-I", src, "corp"),
      Entry("-I", src, "concord"), Entry("-I", src, "query")>>

PlainCppFlags(src) == <<Entry("-I", src, "")>>

PlainLdFlags(lib) == <<Entry("-l", NoPath, "manatee"), Entry("-L", lib, "")>>

ExtendedCppFlags(src) ==
    PlainCppFlags(src) \o [i \in 1..Len(ExtraSubdirs) |-> Entry("-I", src, ExtraSubdirs[i])]

ExtendedLdFlags(src, lib) ==
    <<Entry("-l", NoPath, "manatee"), Entry("-L", lib, ""),
      Entry("-l", NoPath, "hat-trie"), Entry("-L", lib, ""),
      Entry("-l", NoPath, "fsa3"), Entry("-L", src, "fsa3/.libs")>>

\* the buildEnv map of buildProject
BuildEnv(version, src, lib) ==
    IF Ge(version, v2_208)
    THEN [CGO_CXXFLAGS |-> CxxFlags(src),
          CGO_CPPFLAGS |-> ExtendedCppFlags(src),
          CGO_LDFLAGS  |-> ExtendedLdFlags(src, lib)]
    ELSE [CGO_CXXFLAGS |-> CxxFlags(src),
          CGO_CPPFLAGS |-> PlainCppFlags(src),
          CGO_LDFLAGS  |-> PlainLdFlags(lib)]

(***************************************************************************)
(* EnvironmentVars: a map from variable names to values, held by           *)
(* reference.  A call of a method gives the contents the maps hold after   *)
(* it.                                                                     *)
(***************************************************************************)
\* a merge in which the keys already present keep their values
UpdateByKeepingExisting(ev, other) ==
    [k \in DOMAIN ev \cup DOMAIN other |-> IF k \in DOMAIN ev THEN ev[k] ELSE other[k]]

\* ev.UpdateBy(other): the contents of the receiver after the loop
UpdateBy(ev, other) ==
    [k \in DOMAIN ev \cup DOMAIN other |-> IF k \in DOMAIN other THEN other[k] ELSE ev[k]]

\* ev.Export(): len(ev) empty strings, then one "k=v" entry for each key,
\* in the order of the map iteration; the entries are given as a set
Export(ev) ==
    [blank |-> Cardinality(DOMAIN ev), vars |-> {<<k, ev[k]>> : k \in DOMAIN ev}]

\* cmd.Env of the commands of buildProject: WithEnv(currEnv) after
\* currEnv.UpdateBy(buildEnv)
buildCommandEnv(ambient, version, src, lib) ==
    Export(UpdateBy(ambient, BuildEnv(version, src, lib)))

(***************************************************************************)
(* The run's record of what it did.  An event is [ev, what, a, b, sp]:     *)
(*   start / done   a step of the sequence begins / has completed          *)
(*   out            console output of a step's action                      *)
(*   fail           the diagnostic callback of OperationSequence.Fail      *)
(*   exit           a diagnostic of main followed by os.Exit               *)
(*   panic          a run-time panic                                       *)
(*   scan           the resolver lists /opt/manatee                        *)
(*   finish         Finish was called on the sequence                      *)
(*   effect         an external effect: http1..3, extract,                 *)
(*                  rm_binaries, make_clean, configure, make_hat_trie,     *)
(*                  make_fsa3, generate, test, compile, rename, script     *)
(* sp is the state of the progress indicator at that moment.               *)
(***************************************************************************)
Event(ev, what, a, b, sp) == [ev |-> ev, what |-> what, a |-> a, b |-> b, sp |-> sp]

Events(tr, ev) == SelectSeq(tr, LAMBDA e : e.ev = ev)

Whats(tr, ev) == LET es == Events(tr, ev) IN [i \in 1..Len(es) |-> es[i].what]

(***************************************************************************)
(* OperationSequence.  A process state st is [seq, trace, exitCode, fs].   *)
(***************************************************************************)
NewOperationSequence == [currIdx |-> 0, sp |-> "nil", finished |-> FALSE]

\* seq.sp.Active()
Active(sq) == sq.sp = "active"

Log(st, ev, what) ==
    [st EXCEPT !.trace = Append(@, Event(ev, what, <<>>, <<>>, st.seq.sp))]

\* an external command, download or file operation performed by the run
Effect(st, what) == Log(st, "effect", what)

\* os.Exit(code) after a diagnostic of main
Exit(st, code, what) == [Log(st, "exit", what) EXCEPT !.exitCode = code]

\* a run-time panic ends the process with status 2
Panic(st, what) == [Log(st, "panic", what) EXCEPT !.exitCode = 2]

\* a variant of Fail that prints the diagnostic and returns to the step
FailWithoutExit(st, what, a, b) ==
    LET stopped == [st.seq EXCEPT !.sp = IF Active(st.seq) THEN "stopped" ELSE @]
    IN IF st.seq.sp = "nil" THEN Panic(st, "nil pointer dereference")
       ELSE [st EXCEPT !.seq = stopped,
                       !.trace = Append(@, Event("fail", what, a, b, stopped.sp))]

\* seq.sp is nil until the first RunOperation: sp.Active() then panics
Fail(st, what, a, b) ==
    LET stopped == [st.seq EXCEPT !.sp = IF Active(st.seq) THEN "stopped" ELSE @]
    IN IF st.seq.sp = "nil" THEN Panic(st, "nil pointer dereference")
       ELSE [st EXCEPT !.seq = stopped,
                       !.trace = Append(@, Event("fail", what, a, b, stopped.sp)),
                       !.exitCode = 1]

\* the spinner is stopped around fn() and started again if it was active;
\* seq.sp is nil until the first RunOperation: sp.Active() then panics
WithPausedOutput(st, what) ==
    LET during == IF Active(st.seq) THEN "stopped" ELSE st.seq.sp
    IN IF st.seq.sp = "nil" THEN Panic(st, "nil pointer dereference")
       ELSE [st EXCEPT !.trace = Append(@, Event("out", what, <<>>, <<>>, during))]

\* Finish
Finish(sq) == [sq EXCEPT !.finished = TRUE]

\* a RunOperation that does not look at the finished flag
RunOperationBeginUnchecked(st, title) ==
    LET counted == [st EXCEPT !.seq.currIdx = @ + 1]
        titled  == [counted EXCEPT !.trace = Append(@, Event("start", title, <<>>, <<>>,
                                                           counted.seq.sp))]
    IN [titled EXCEPT !.seq.sp = "active"]

\* RunOperation up to the call of fn
RunOperationBegin(st, title) ==
    IF st.seq.finished
    THEN Panic(st, "operation sequence already finished")
    ELSE LET counted == [st EXCEPT !.seq.currIdx = @ + 1]
             titled  == Log(counted, "start", title)
         IN [titled EXCEPT !.seq.sp = "active"]

\* RunOperation after fn returned
RunOperationEnd(st, title) ==
    LET stopped == [st EXCEPT !.seq.sp = "stopped"]
    IN Log(stopped, "done", title)

(***************************************************************************)
(* The file system                                                         *)
(***************************************************************************)
\* a libmanatee.so: whether it exists and the text after its "open-" marker
Lib(exists, marked, text) == [exists |-> exists, marked |-> marked, text |-> text]

NoFile == Lib(FALSE, FALSE, <<>>)

NoMarker == Lib(TRUE, FALSE, <<>>)

Marked(text) == Lib(TRUE, TRUE, text)

\* fs.PathExists(<dir>/libmanatee.so)
LibAt(f, dir) ==
    CASE dir.kind = "usr"      -> IF f.usrLib THEN NoMarker ELSE NoFile
      [] dir.kind = "usrlocal" -> f.localLib
      [] dir.kind = "custom"   -> f.customLib
      [] dir.kind = "opt"      -> IF dir.ver \in f.opt.libs THEN NoMarker ELSE NoFile
      [] OTHER                 -> NoFile

\* DefaultManateeLibPath is /usr/local/lib/libmanatee.so
DefaultManateeLibDir == Path("usrlocal", <<>>)

(***************************************************************************)
(* VersionResolver                                                         *)
(***************************************************************************)
\* a less function with its operands exchanged
LessFoundSwapped(a, b) == Ge(a, b)

\* the less function given to sort.SliceStable: foundVersions[j].Ge(foundVersions[i])
LessFound(a, b) == Ge(b, a)

\* sort.SliceStable: insertion of x behind every element it is not less than
RECURSIVE InsertStable(_, _)
InsertStable(sorted, x) ==
    IF sorted = <<>> THEN <<x>>
    ELSE IF LessFound(x, Head(sorted)) THEN <<x>> \o sorted
    ELSE <<Head(sorted)>> \o InsertStable(Tail(sorted), x)

RECURSIVE SliceStable(_)
SliceStable(slice) ==
    IF slice = <<>> THEN <<>>
    ELSE InsertStable(SliceStable(SubSeq(slice, 1, Len(slice) - 1)), slice[Len(slice)])

\* the entries of /opt/manatee that parse and whose Semver is allow-listed
RECURSIVE FoundVersions(_, _)
FoundVersions(entries, knownVersions) ==
    IF entries = <<>> THEN <<>>
    ELSE LET p == ParseManateeVersion(Head(entries))
             rest == FoundVersions(Tail(entries), knownVersions)
         IN IF ~p.err /\ SliceContains(knownVersions, Semver(p.ver))
            THEN <<p.ver>> \o rest
            ELSE rest

\* a result of the resolver: kind is "ok", "err" or "panic"
Resolved(kind, ver) == [kind |-> kind, ver |-> ver]

findLatestManateeInOpt(f, knownVersions) ==
    IF ~f.opt.readable THEN Resolved("err", ZeroVersion)
    ELSE LET foundVersions == FoundVersions(f.opt.entries, knownVersions)
             sorted == SliceStable(foundVersions)
         IN IF Len(foundVersions) > 0
            THEN Resolved("ok", sorted[Len(sorted)])
            ELSE Resolved("ok", ZeroVersion)

\* stringsOk: whether the `strings` tool ran; srch[1] of a failed match panics
AutodetectManateeVersion(f, specPath, knownVersions, stringsOk) ==
    LET libDir == IF specPath # NoPath THEN specPath ELSE DefaultManateeLibDir
        lib    == LibAt(f, libDir)
    IN IF lib.exists
       THEN IF ~stringsOk THEN Resolved("err", ZeroVersion)
            ELSE IF ~lib.marked THEN Resolved("panic", ZeroVersion)
            ELSE LET p == ParseManateeVersion(lib.text)
                 IN Resolved(IF p.err THEN "err" ELSE "ok", p.ver)
       ELSE findLatestManateeInOpt(f, knownVersions)

\* the else branch of AutodetectManateeVersion: os.ReadDir("/opt/manatee") is called
ScansOpt(f, specPath) ==
    ~LibAt(f, IF specPath # NoPath THEN specPath ELSE DefaultManateeLibDir).exists

findManatee(f, version) ==
    IF LibAt(f, Path("usr", <<>>)).exists THEN Path("usr", <<>>)
    ELSE IF LibAt(f, Path("usrlocal", <<>>)).exists THEN Path("usrlocal", <<>>)
    ELSE IF LibAt(f, OptInstPath(version)).exists THEN OptInstPath(version)
    ELSE NoPath

\* strings.HasPrefix(*manateeLib, "/usr/local/lib")
HasUsrLocalLibPrefix(dir) == dir.kind = "usrlocal"

(***************************************************************************)
(* SourceAcquirer                                                          *)
(***************************************************************************)
NumMirrors == 3

DownloadOutcomes == {"create_err", "get_err", "bad_status", "copy_err", "ok"}

\* the mirror answered with a status in 200..399
AnsweredSuccess(outcome) == outcome \in {"copy_err", "ok"}

\* downloadFile(url, target): os.Create truncates the target before http.Get
downloadFile(f, ver, outcome) ==
    LET created == [f EXCEPT !.partials = @ \cup {ver}, !.archives = @ \ {ver}]
    IN CASE outcome = "create_err" -> [fs |-> f, err |-> TRUE]
         [] outcome = "ok" ->
              [fs |-> [created EXCEPT !.archives = @ \cup {ver}, !.partials = @ \ {ver}],
               err |-> FALSE]
         [] OTHER -> [fs |-> created, err |-> TRUE]

UnpackOutcomes == {"ok", "failed", "failed_midway"}

\* an unpackArchive that leaves the archive behind when tar fails
unpackArchiveKeeping(f, ver, tar) ==
    IF tar = "ok" /\ ver \in f.archives
    THEN [fs |-> [f EXCEPT !.cacheDirs = @ \cup {ver}], err |-> FALSE]
    ELSE [fs |-> [f EXCEPT !.cacheDirs = IF tar = "failed_midway" THEN @ \cup {ver} ELSE @],
          err |-> TRUE]

\* unpackArchive(path): tar xzf <path> -C /tmp; an incomplete archive never
\* unpacks, a complete one unpacks to /tmp/manatee-open-<ver>; tar may also
\* fail after it created part of the tree
unpackArchive(f, ver, tar) ==
    IF tar = "ok" /\ ver \in f.archives
    THEN [fs |-> [f EXCEPT !.cacheDirs = @ \cup {ver}], err |-> FALSE]
    ELSE [fs |-> [f EXCEPT !.archives = @ \ {ver}, !.partials = @ \ {ver},
                           !.cacheDirs = IF tar = "failed_midway" THEN @ \cup {ver} ELSE @],
          err |-> TRUE]

\* the call record of downloadManateeSrc
IdleDownload ==
    [phase |-> "idle", mirror |-> 0, attempts |-> <<>>, used |-> 0, cached |-> FALSE,
     unpack |-> "none", path |-> NoPath, err |-> "nil"]

(***************************************************************************)
(* BuildDriver: the functions the steps call.  Each takes the process      *)
(* state and the outcomes o of the external commands it runs.              *)
(***************************************************************************)
Running(st) == st.exitCode = -1

RECURSIVE EffectAll(_, _)
EffectAll(st, whats) ==
    IF whats = <<>> THEN st ELSE EffectAll(Effect(st, Head(whats)), Tail(whats))

\* the two files os.Remove is called on
OutputNames == {"bin", "rs"}

\* the removals both succeed or both fail
KeptSets == {{}, OutputNames}

\* clearPreviousBinaries: both removals, errors ignored; kept are the files
\* whose removal failed
clearPreviousBinaries(st, kept) ==
    [Effect(st, "rm_binaries") EXCEPT !.fs.outputs = @ \cap kept]

\* a preparation that goes on to ./configure after a failed `make clean`
initManateeSourcesIgnoringClean(st, version, o) ==
    LET clean  == IF o.isFile = "yes" THEN <<"make_clean">> ELSE <<>>
        libs   == IF ~o.hat THEN <<"make_hat_trie">> ELSE <<"make_hat_trie", "make_fsa3">>
    IN IF o.isFile = "err" THEN [st |-> st, err |-> TRUE]
       ELSE IF ~o.configure
       THEN [st |-> EffectAll(st, clean \o <<"configure">>), err |-> TRUE]
       ELSE IF Ge(version, v2_208)
       THEN [st |-> EffectAll(st, clean \o <<"configure">> \o libs),
             err |-> ~o.hat \/ ~o.fsa]
       ELSE [st |-> EffectAll(st, clean \o <<"configure">>), err |-> FALSE]

\* initManateeSources: the commands run, in order, and whether an error is returned
initManateeSources(st, version, o) ==
    LET clean  == IF o.isFile = "yes" THEN <<"make_clean">> ELSE <<>>
        libs   == IF ~o.hat THEN <<"make_hat_trie">> ELSE <<"make_hat_trie", "make_fsa3">>
    IN IF o.isFile = "err" THEN [st |-> st, err |-> TRUE]
       ELSE IF o.isFile = "yes" /\ ~o.clean
       THEN [st |-> EffectAll(st, clean), err |-> TRUE]
       ELSE IF ~o.configure
       THEN [st |-> EffectAll(st, clean \o <<"configure">>), err |-> TRUE]
       ELSE IF Ge(version, v2_208)
       THEN [st |-> EffectAll(st, clean \o <<"configure">> \o libs),
             err |-> ~o.hat \/ ~o.fsa]
       ELSE [st |-> EffectAll(st, clean \o <<"configure">>), err |-> FALSE]

\* a build that goes on to compile after a failed test suite
buildProjectIgnoringTests(st, test, prepareOnly, o) ==
    IF ~o.verInfo \/ ~o.commit THEN [st |-> st, err |-> TRUE]
    ELSE IF prepareOnly THEN [st |-> Log(st, "out", "export"), err |-> FALSE]
    ELSE LET shown     == WithPausedOutput(st, "applied env. variables")
             generated == Effect(Log(shown, "out", "Running GENERATE"), "generate")
             tested    == IF test
                          THEN Effect(Log(generated, "out", "Running TESTS"), "test")
                          ELSE generated
             built     == Effect(Log(tested, "out", "Running BUILD"), "compile")
         IN IF ~o.generate THEN [st |-> generated, err |-> TRUE]
            ELSE IF ~o.build THEN [st |-> built, err |-> TRUE]
            ELSE [st |-> [built EXCEPT !.fs.outputs = @ \cup {"rs"}], err |-> FALSE]

\* buildProject after the flags are derived (lines 166-216)
buildProject(st, test, prepareOnly, o) ==
    IF ~o.verInfo \/ ~o.commit THEN [st |-> st, err |-> TRUE]
    ELSE IF prepareOnly THEN [st |-> Log(st, "out", "export"), err |-> FALSE]
    ELSE LET shown     == WithPausedOutput(st, "applied env. variables")
             generated == Effect(Log(shown, "out", "Running GENERATE"), "generate")
             tested    == IF test
                          THEN Effect(Log(generated, "out", "Running TESTS"), "test")
                          ELSE generated
             built     == Effect(Log(tested, "out", "Running BUILD"), "compile")
         IN IF ~o.generate THEN [st |-> generated, err |-> TRUE]
            ELSE IF test /\ ~o.test THEN [st |-> tested, err |-> TRUE]
            ELSE IF ~o.build THEN [st |-> built, err |-> TRUE]
            ELSE [st |-> [built EXCEPT !.fs.outputs = @ \cup {"rs"}], err |-> FALSE]

\* generateBootstrapScript
generateBootstrapScript(st, needsLDScript, o) ==
    IF needsLDScript
    THEN LET renamed == [Effect(st, "rename") EXCEPT
                            !.fs.outputs = (@ \ {"rs"}) \cup {"bin"}]
             written == [Effect(renamed, "script") EXCEPT !.fs.outputs = @ \cup {"rs"}]
         IN IF ~o.rename \/ "rs" \notin st.fs.outputs
            THEN [st |-> Effect(st, "rename"), err |-> TRUE]
            ELSE IF ~o.open THEN [st |-> renamed, err |-> TRUE]
            ELSE [st |-> WithPausedOutput(written, "Generated run script"), err |-> FALSE]
    ELSE [st |-> Log(st, "out", "To install the application"), err |-> FALSE]

(***************************************************************************)
(* Invocations: the command lines and file systems a run may start from    *)
(***************************************************************************)
MaxRuns == 2

S_2_x == <<"2", ".", "x">>

S_junk == <<"j", "u", "n", "k">>

\* flag.Arg(1): absent, allow-listed, parseable but not canonical, not a version
ArgVersions == {<<>>, S_2_214_1, S_2_208, S_2_x}

SrcArgs == {NoPath, Path("user", <<>>)}

LibArgs == {NoPath, Path("custom", <<>>)}

\* (-no-build, -test); the test flag is read only when building
ModeArgs == {<<FALSE, FALSE>>, <<FALSE, TRUE>>, <<TRUE, FALSE>>}

LocalLibs == {NoFile, NoMarker, Marked(S_2_208), Marked(S_2_214_1)}

CustomLibs == {NoFile, NoMarker, Marked(S_2_x), Marked(S_2_223_6)}

Opt(readable, entries, libs) == [readable |-> readable, entries |-> entries, libs |-> libs]

\* /opt/manatee: its entries in directory order and the installs that hold a library
OptDirs ==
    {Opt(FALSE, <<>>, {}),
     Opt(TRUE, <<S_2_214_1, S_junk>>, {Semver(ParseManateeVersion(S_2_214_1).ver)}),
     Opt(TRUE, <<S_2_214_1, S_2_223_6>>, {Semver(ParseManateeVersion(S_2_223_6).ver)})}

Cache(dirs, archives, partials) ==
    [cacheDirs |-> dirs, archives |-> archives, partials |-> partials]

\* /tmp: unpacked trees, complete archives and incomplete archives, by version
Caches ==
    {Cache({}, {}, {}), Cache({S_2_214_1}, {}, {}),
     Cache({}, {S_2_214_1}, {}), Cache({}, {}, {S_2_214_1})}

\* the output files a previous build left in the project directory
Outputs == {{"bin", "rs"}}

\* the library the resolver inspects first for this command line
ProbedLib(f, c) ==
    LibAt(f, IF c.manateeLib # NoPath THEN c.manateeLib ELSE DefaultManateeLibDir)

\* the file system varies only in what the command line makes the run read:
\* the /tmp cache without --manatee-src, the system libraries without
\* --manatee-lib, /opt/manatee when the probed library is missing
Relevant(c, f) ==
    /\ (c.manateeSrc # NoPath =>
           f.cacheDirs = {} /\ f.archives = {} /\ f.partials = {})
    /\ (c.manateeLib # NoPath => ~f.usrLib /\ f.localLib = NoFile)
    /\ (c.manateeLib = NoPath => f.customLib = NoFile)
    /\ (ProbedLib(f, c).exists => ~f.opt.readable)

CommandLines ==
    {[arg1 |-> a, manateeSrc |-> s, manateeLib |-> l, noBuild |-> m[1], test |-> m[2]] :
        a \in ArgVersions, s \in SrcArgs, l \in LibArgs, m \in ModeArgs}

FileSystems ==
    {[usrLib |-> u, localLib |-> ll, customLib |-> cl, opt |-> o,
      cacheDirs |-> c.cacheDirs, archives |-> c.archives, partials |-> c.partials,
      outputs |-> out] :
        u \in BOOLEAN, ll \in LocalLibs, cl \in CustomLibs, o \in OptDirs,
        c \in Caches, out \in Outputs}

Init ==
    /\ cli \in CommandLines
    /\ fs \in FileSystems
    /\ Relevant(cli, fs)
    /\ pc = "detect"
    /\ detectedVersion = ZeroVersion
    /\ specifiedVersion = ZeroVersion
    /\ manateeSrc = cli.manateeSrc
    /\ manateeLib = cli.manateeLib
    /\ shouldGenerateRunScript = FALSE
    /\ seq = NewOperationSequence
    /\ exitCode = -1
    /\ dl = IdleDownload
    /\ trace = <<>>
    /\ runs = 1
    /\ fnIn = <<>>
    /\ fnOut = <<>>

(***************************************************************************)
(* main, up to the first step                                              *)
(***************************************************************************)
St == [seq |-> seq, trace |-> trace, exitCode |-> exitCode, fs |-> fs]

\* the process continues at next unless it has exited
Commit(st, next) ==
    /\ seq' = st.seq
    /\ trace' = st.trace
    /\ exitCode' = st.exitCode
    /\ fs' = st.fs
    /\ pc' = IF Running(st) THEN next ELSE pc

\* cmd.go 168-176
Detect ==
    /\ Running(St) /\ pc = "detect"
    /\ \E stringsOk \in BOOLEAN :
         LET r == AutodetectManateeVersion(fs, manateeLib, KnownVersions, stringsOk)
             read == IF ScansOpt(fs, manateeLib) THEN Log(St, "scan", "/opt/manatee")
                     ELSE St
             st == CASE r.kind = "panic" -> Panic(read, "index out of range")
                     [] r.kind = "err" ->
                          Exit(read, 1, "Failed to find manatee-open or determine its version")
                     [] r.kind = "ok" /\ IsZero(r.ver) ->
                          Exit(read, 1, "Autodetection has not found any suitable Manatee version")
                     [] OTHER -> read
         IN /\ detectedVersion' = r.ver
            /\ Commit(st, "parse")
    /\ UNCHANGED <<cli, specifiedVersion, manateeSrc, manateeLib,
                   shouldGenerateRunScript, dl, runs, fnIn, fnOut>>

\* cmd.go 177-194
ParseSpecified ==
    /\ Running(St) /\ pc = "parse"
    /\ IF cli.arg1 # <<>>
       THEN LET p == ParseManateeVersion(cli.arg1)
            IN /\ specifiedVersion' = p.ver
               /\ Commit(IF p.err THEN Exit(St, 1, "Failed to parse specified version")
                         ELSE St, "check")
       ELSE /\ specifiedVersion' = detectedVersion
            /\ Commit(Log(St, "out", "No explicit Manatee version specified"), "check")
    /\ UNCHANGED <<cli, detectedVersion, manateeSrc, manateeLib,
                   shouldGenerateRunScript, dl, runs, fnIn, fnOut>>

\* an allow-list test that compares major and minor only
IsKnownByMinor(version) ==
    \E i \in 1..Len(KnownVersions) :
        LET k == ParseManateeVersion(KnownVersions[i]).ver
        IN k.Major = version.Major /\ k.Minor = version.Minor

\* the allow-list test of main
IsKnown(version) == SliceContains(KnownVersions, Semver(version))

\* cmd.go 196-203
CheckKnown ==
    /\ Running(St) /\ pc = "check"
    /\ Commit(IF ~IsKnown(specifiedVersion) THEN Exit(St, 1, "Unsupported version")
              ELSE St, "location")
    /\ UNCHANGED <<cli, detectedVersion, specifiedVersion, manateeSrc, manateeLib,
                   shouldGenerateRunScript, dl, runs, fnIn, fnOut>>

\* cmd.go 205-210: the zone database may be missing
LoadLocation ==
    /\ Running(St) /\ pc = "location"
    /\ \E found \in BOOLEAN :
         Commit(IF ~found THEN Exit(St, 1, "failed to load time location")
                ELSE [St EXCEPT !.seq = NewOperationSequence], "search")
    /\ UNCHANGED <<cli, detectedVersion, specifiedVersion, manateeSrc, manateeLib,
                   shouldGenerateRunScript, dl, runs, fnIn, fnOut>>

(***************************************************************************)
(* Step 1: searching for manatee-open                                      *)
(***************************************************************************)
TitleSearch == "searching for manatee-open"

TitlePrepare == "preparing manatee-open sources"

TitleBuild == "building target project"

TitleExport == "exporting CGO variables"

TitleGenerate == "generating executable"

\* cmd.go 212-229: RunOperation starts the step; the source is acquired or taken as given
SearchBegin ==
    /\ Running(St) /\ pc = "search"
    /\ LET st == RunOperationBegin(St, TitleSearch)
       IN IF manateeSrc = NoPath
          THEN /\ dl' = [IdleDownload EXCEPT !.phase = IF Running(st) THEN "explore" ELSE @]
               /\ Commit(st, "download")
          ELSE /\ dl' = dl
               /\ Commit(IF Running(st)
                         THEN WithPausedOutput(st, "Assuming that provided Manatee src path matches")
                         ELSE st, "search_lib")
    /\ UNCHANGED <<cli, detectedVersion, specifiedVersion, manateeSrc, manateeLib,
                   shouldGenerateRunScript, runs, fnIn, fnOut>>

Returned(d, path, err) == [d EXCEPT !.phase = "returned", !.path = path, !.err = err]

ErrExplore == "failed to explore directory"

\* a lookup that does not return the directory it found
exploreIgnoringCache(d, f, version, statOk) ==
    IF ~statOk THEN Returned(d, NoPath, ErrExplore)
    ELSE IF Semver(version) \in f.archives \cup f.partials
    THEN [d EXCEPT !.phase = "unpack"]
    ELSE [d EXCEPT !.phase = "mirror", !.mirror = 1]

\* conf.go 133-147: fs.IsDir(outDir), then fs.PathExists(outFile)
explore(d, f, version, statOk) ==
    IF ~statOk THEN Returned(d, NoPath, ErrExplore)
    ELSE IF Semver(version) \in f.cacheDirs
    THEN [Returned(d, OutDir(version), "nil") EXCEPT !.cached = TRUE]
    ELSE IF Semver(version) \in f.archives \cup f.partials
    THEN [d EXCEPT !.phase = "unpack"]
    ELSE [d EXCEPT !.phase = "mirror", !.mirror = 1]

\* downloadManateeSrc up to its first download
DlExplore ==
    /\ Running(St) /\ pc = "download" /\ dl.phase = "explore"
    /\ \E statOk \in BOOLEAN :
         LET d == explore(dl, fs, specifiedVersion, statOk)
         IN /\ dl' = d
            /\ Commit(IF d.phase # "returned" THEN Log(St, "out", "Looking for archive")
                      ELSE IF d.cached THEN Log(St, "out", "found existing manatee directory")
                      ELSE St, pc)
    /\ UNCHANGED <<cli, detectedVersion, specifiedVersion, manateeSrc, manateeLib,
                   shouldGenerateRunScript, runs, fnIn, fnOut>>

ErrManual == "Failed to download and extract manatee-open. Please do this manually and run the script with --manatee-src"

HttpEffect == <<"http1", "http2", "http3">>

\* a mirror list that starts over after the last mirror failed
NextMirrorRetrying(k) == IF k < NumMirrors THEN k + 1 ELSE 1

\* a mirror list that leaves out every second mirror
NextMirrorSkipping(k) == IF k + 2 <= NumMirrors THEN k + 2 ELSE 0

\* the mirror tried after mirror k failed; 0 when the list is exhausted
NextMirror(k) == IF k < NumMirrors THEN k + 1 ELSE 0

\* conf.go 148-163: one downloadFile call of the nested mirror attempts
DlMirror ==
    /\ Running(St) /\ pc = "download" /\ dl.phase = "mirror"
    /\ \E outcome \in DownloadOutcomes :
         LET ver  == Semver(specifiedVersion)
             r    == downloadFile(fs, ver, outcome)
             st   == IF outcome = "create_err" THEN St ELSE Effect(St, HttpEffect[dl.mirror])
             tried == [dl EXCEPT !.attempts = Append(@, [mirror |-> dl.mirror,
                                                         outcome |-> outcome])]
         IN /\ dl' = IF ~r.err THEN [tried EXCEPT !.phase = "unpack", !.used = dl.mirror]
                     ELSE IF NextMirror(dl.mirror) # 0
                     THEN [tried EXCEPT !.mirror = NextMirror(dl.mirror)]
                     ELSE Returned(tried, NoPath, ErrManual)
            /\ Commit([st EXCEPT !.fs = r.fs], pc)
    /\ UNCHANGED <<cli, detectedVersion, specifiedVersion, manateeSrc, manateeLib,
                   shouldGenerateRunScript, runs, fnIn, fnOut>>

\* conf.go 165-169
DlUnpack ==
    /\ Running(St) /\ pc = "download" /\ dl.phase = "unpack"
    /\ \E tar \in UnpackOutcomes :
         LET r  == unpackArchive(fs, Semver(specifiedVersion), tar)
             st == [Effect(St, "extract") EXCEPT !.fs = r.fs]
         IN IF r.err
            THEN /\ dl' = [Returned(dl, NoPath, ErrManual) EXCEPT !.unpack = "failed"]
                 /\ Commit(Log(st, "out", "removing archive due to an error"), pc)
            ELSE /\ dl' = [Returned(dl, OutDir(specifiedVersion), "nil") EXCEPT !.unpack = "ok"]
                 /\ Commit(st, pc)
    /\ UNCHANGED <<cli, detectedVersion, specifiedVersion, manateeSrc, manateeLib,
                   shouldGenerateRunScript, runs, fnIn, fnOut>>

\* cmd.go 214-219: the result of downloadManateeSrc comes back to the step
DlReturn ==
    /\ Running(St) /\ pc = "download" /\ dl.phase = "returned"
    /\ manateeSrc' = dl.path
    /\ Commit(IF dl.err # "nil" THEN Fail(St, dl.err, <<>>, <<>>) ELSE St, "search_lib")
    /\ UNCHANGED <<cli, detectedVersion, specifiedVersion, manateeLib,
                   shouldGenerateRunScript, dl, runs, fnIn, fnOut>>

\* cmd.go 231-239 and 256-264
SearchLib ==
    /\ Running(St) /\ pc = "search_lib"
    /\ IF manateeLib = NoPath
       THEN LET found == findManatee(fs, specifiedVersion)
            IN /\ manateeLib' = found
               /\ Commit(IF found = NoPath
                         THEN Fail(St, "Manatee not found in system searched paths", <<>>, <<>>)
                         ELSE St, "search_cmp")
       ELSE /\ manateeLib' = manateeLib
            /\ Commit(WithPausedOutput(St, "Assuming that provided libmanatee.so matches"),
                      "search_end")
    /\ UNCHANGED <<cli, detectedVersion, specifiedVersion, manateeSrc,
                   shouldGenerateRunScript, dl, runs, fnIn, fnOut>>

\* a comparison that falls back to the detected version instead of failing
SearchCmpAdopting ==
    /\ Running(St) /\ pc = "search_cmp"
    /\ specifiedVersion' = detectedVersion
    /\ Commit(WithPausedOutput(St, "Using system-installed"), "search_end")
    /\ UNCHANGED <<cli, detectedVersion, manateeSrc, manateeLib,
                   shouldGenerateRunScript, dl, runs, fnIn, fnOut>>

\* cmd.go 240-254: showVersionMismatch(detectedVersion, specifiedVersion)
SearchCmp ==
    /\ Running(St) /\ pc = "search_cmp"
    /\ Commit(IF ~Eq(specifiedVersion, detectedVersion)
              THEN Fail(St, "version mismatch", Semver(detectedVersion),
                        Semver(specifiedVersion))
              ELSE WithPausedOutput(St, "Using system-installed"), "search_end")
    /\ UNCHANGED <<cli, detectedVersion, specifiedVersion, manateeSrc, manateeLib,
                   shouldGenerateRunScript, dl, runs, fnIn, fnOut>>

\* cmd.go 266-269 and the end of RunOperation
SearchEnd ==
    /\ Running(St) /\ pc = "search_end"
    /\ shouldGenerateRunScript' =
          IF ~HasUsrLocalLibPrefix(manateeLib) THEN TRUE ELSE shouldGenerateRunScript
    /\ Commit(RunOperationEnd(St, TitleSearch), "clear")
    /\ UNCHANGED <<cli, detectedVersion, specifiedVersion, manateeSrc, manateeLib,
                   dl, runs, fnIn, fnOut>>

(***************************************************************************)
(* Steps 2 to 5                                                            *)
(***************************************************************************)
HasRemoval(tr) == \E i \in 1..Len(tr) : tr[i].ev = "effect" /\ tr[i].what = "rm_binaries"

\* the removal placed before the first step instead of after it
ClearBinariesEarly ==
    /\ Running(St)
    /\ \/ /\ pc = "search" /\ ~HasRemoval(trace)
          /\ \E kept \in KeptSets :
                Commit(clearPreviousBinaries(St, kept), "search")
       \/ /\ pc = "clear"
          /\ Commit(St, "prepare")
    /\ UNCHANGED <<cli, detectedVersion, specifiedVersion, manateeSrc, manateeLib,
                   shouldGenerateRunScript, dl, runs, fnIn, fnOut>>

\* cmd.go 271
ClearBinaries ==
    /\ Running(St) /\ pc = "clear"
    /\ \E kept \in KeptSets :
          Commit(clearPreviousBinaries(St, kept), "prepare")
    /\ UNCHANGED <<cli, detectedVersion, specifiedVersion, manateeSrc, manateeLib,
                   shouldGenerateRunScript, dl, runs, fnIn, fnOut>>

PrepareOutcomes ==
    [isFile : {"err", "yes", "no"}, clean : BOOLEAN, configure : BOOLEAN,
     hat : BOOLEAN, fsa : BOOLEAN]

\* cmd.go 273-280
Prepare ==
    /\ Running(St) /\ pc = "prepare"
    /\ \E o \in PrepareOutcomes :
         LET begun == RunOperationBegin(St, TitlePrepare)
             r     == initManateeSources(begun, specifiedVersion, o)
             acted == IF r.err
                      THEN Fail(r.st, "Failed to init manatee-open sources", <<>>, <<>>)
                      ELSE r.st
         IN Commit(IF ~Running(begun) THEN begun
                   ELSE IF ~Running(acted) THEN acted
                   ELSE RunOperationEnd(acted, TitlePrepare), "build")
    /\ UNCHANGED <<cli, detectedVersion, specifiedVersion, manateeSrc, manateeLib,
                   shouldGenerateRunScript, dl, runs, fnIn, fnOut>>

BuildOutcomes ==
    [verInfo : BOOLEAN, commit : BOOLEAN, generate : BOOLEAN, test : BOOLEAN,
     build : BOOLEAN]

\* cmd.go 282-303
Build ==
    /\ Running(St) /\ pc = "build"
    /\ \E o \in BuildOutcomes :
         LET msg   == IF cli.noBuild THEN TitleExport ELSE TitleBuild
             begun == RunOperationBegin(St, msg)
             r     == buildProject(begun, cli.test, cli.noBuild, o)
             acted == IF r.err THEN Fail(r.st, "Failed to build", <<>>, <<>>) ELSE r.st
         IN Commit(IF ~Running(begun) THEN begun
                   ELSE IF ~Running(acted) THEN acted
                   ELSE RunOperationEnd(acted, msg), "generate")
    /\ UNCHANGED <<cli, detectedVersion, specifiedVersion, manateeSrc, manateeLib,
                   shouldGenerateRunScript, dl, runs, fnIn, fnOut>>

GenerateOutcomes == [rename : BOOLEAN, open : BOOLEAN]

\* cmd.go 305-316: the last step, then main returns
Generate ==
    /\ Running(St) /\ pc = "generate"
    /\ \E o \in GenerateOutcomes :
         LET begun == RunOperationBegin(St, TitleGenerate)
             r     == generateBootstrapScript(begun, shouldGenerateRunScript, o)
             ended == IF cli.noBuild THEN St
                      ELSE IF ~Running(begun) THEN begun
                      ELSE RunOperationEnd(r.st, TitleGenerate)
         IN /\ seq' = ended.seq /\ trace' = ended.trace /\ fs' = ended.fs
            /\ exitCode' = IF Running(ended) THEN 0 ELSE ended.exitCode
            /\ pc' = IF Running(ended) THEN "done" ELSE pc
    /\ UNCHANGED <<cli, detectedVersion, specifiedVersion, manateeSrc, manateeLib,
                   shouldGenerateRunScript, dl, runs, fnIn, fnOut>>

\* the operator runs the same command line again on the file system the run left
Restart ==
    /\ ~Running(St)
    /\ runs < MaxRuns
    /\ runs' = runs + 1
    /\ pc' = "detect"
    /\ detectedVersion' = ZeroVersion
    /\ specifiedVersion' = ZeroVersion
    /\ manateeSrc' = cli.manateeSrc
    /\ manateeLib' = cli.manateeLib
    /\ shouldGenerateRunScript' = FALSE
    /\ seq' = NewOperationSequence
    /\ exitCode' = -1
    /\ dl' = IdleDownload
    /\ trace' = <<>>
    /\ UNCHANGED <<cli, fs, fnIn, fnOut>>

Next ==
    \/ Detect \/ ParseSpecified \/ CheckKnown \/ LoadLocation
    \/ SearchBegin \/ DlExplore \/ DlMirror \/ DlUnpack \/ DlReturn
    \/ SearchLib \/ SearchCmp \/ SearchEnd
    \/ ClearBinaries \/ Prepare \/ Build \/ Generate
    \/ Restart

Spec == Init /\ [][Next]_vars

(***************************************************************************)
(* The derived build flags as a function of (version, sourceDir, libDir)   *)
(***************************************************************************)
MaxMajor == 3

MaxPatch == 2

MinorSpread == 1

FlagVersions ==
    {NewVersion(major, minor, patch) :
        major \in 1..MaxMajor,
        minor \in (v2_208.Minor - MinorSpread)..(v2_208.Minor + MinorSpread),
        patch \in 0..MaxPatch}

FlagInputs ==
    [version : FlagVersions,
     src : {Path("user", <<>>), OutDir(v2_208)},
     lib : {Path("usrlocal", <<>>), Path("custom", <<>>)}]

InitFlags ==
    /\ fnIn \in FlagInputs
    /\ fnOut = <<>>
    /\ cli = [arg1 |-> <<>>, manateeSrc |-> fnIn.src, manateeLib |-> fnIn.lib,
              noBuild |-> TRUE, test |-> FALSE]
    /\ fs \in {f \in FileSystems : ~f.usrLib /\ f.localLib = NoFile /\ f.customLib = NoFile
                                   /\ ~f.opt.readable /\ f.cacheDirs = {}
                                   /\ f.archives = {} /\ f.partials = {}}
    /\ pc = "idle"
    /\ detectedVersion = fnIn.version
    /\ specifiedVersion = fnIn.version
    /\ manateeSrc = fnIn.src
    /\ manateeLib = fnIn.lib
    /\ shouldGenerateRunScript = FALSE
    /\ seq = NewOperationSequence
    /\ exitCode = -1
    /\ dl = IdleDownload
    /\ trace = <<>>
    /\ runs = 1

\* buildProject lines 146-164 applied to the input
DeriveFlags ==
    /\ fnOut = <<>>
    /\ fnOut' = <<BuildEnv(fnIn.version, fnIn.src, fnIn.lib)>>
    /\ UNCHANGED <<cli, fs, pc, detectedVersion, specifiedVersion, manateeSrc, manateeLib,
                   shouldGenerateRunScript, seq, exitCode, dl, trace, runs, fnIn>>

NextFlags == DeriveFlags

SpecFlags == InitFlags /\ [][NextFlags]_vars

(***************************************************************************)
(* The /opt/manatee scan as a function of the directory listing            *)
(***************************************************************************)
MaxEntries == 3

ScanNames == {S_2_167_8, S_2_167_10, S_2_208, S_2_214_1, S_junk}

\* the listings of /opt/manatee, in directory order
ScanListings == UNION {[1..n -> ScanNames] : n \in 0..MaxEntries}

\* no library in the default location, no override: detection is the scan
InitScan ==
    /\ cli = [arg1 |-> <<>>, manateeSrc |-> NoPath, manateeLib |-> NoPath,
              noBuild |-> FALSE, test |-> FALSE]
    /\ \E entries \in ScanListings :
          fs = [usrLib |-> FALSE, localLib |-> NoFile, customLib |-> NoFile,
                opt |-> Opt(TRUE, entries, {}),
                cacheDirs |-> {}, archives |-> {}, partials |-> {},
                outputs |-> {"bin", "rs"}]
    /\ pc = "detect"
    /\ detectedVersion = ZeroVersion
    /\ specifiedVersion = ZeroVersion
    /\ manateeSrc = NoPath
    /\ manateeLib = NoPath
    /\ shouldGenerateRunScript = FALSE
    /\ seq = NewOperationSequence
    /\ exitCode = -1
    /\ dl = IdleDownload
    /\ trace = <<>>
    /\ runs = 1
    /\ fnIn = <<>>
    /\ fnOut = <<>>

NextScan == Detect

SpecScan == InitScan /\ [][NextScan]_vars

(***************************************************************************)
(* OperationSequence driven through its methods by an arbitrary caller     *)
(***************************************************************************)
MaxOps == 3

SeqTitles == {TitlePrepare, TitleBuild}

\* what the function given to RunOperation does with the sequence
SeqBodies == {"plain", "paused", "fail"}

InitSeq ==
    /\ cli = [arg1 |-> <<>>, manateeSrc |-> NoPath, manateeLib |-> NoPath,
              noBuild |-> FALSE, test |-> FALSE]
    /\ fs = [usrLib |-> FALSE, localLib |-> NoFile, customLib |-> NoFile,
             opt |-> Opt(FALSE, <<>>, {}),
             cacheDirs |-> {}, archives |-> {}, partials |-> {},
             outputs |-> {}]
    /\ pc = "api"
    /\ detectedVersion = ZeroVersion
    /\ specifiedVersion = ZeroVersion
    /\ manateeSrc = NoPath
    /\ manateeLib = NoPath
    /\ shouldGenerateRunScript = FALSE
    /\ seq = NewOperationSequence
    /\ exitCode = -1
    /\ dl = IdleDownload
    /\ trace = <<>>
    /\ runs = 1
    /\ fnIn = <<>>
    /\ fnOut = <<>>

\* seq.RunOperation(title, fn)
SeqRunOperation ==
    /\ Running(St) /\ pc = "api"
    /\ seq.currIdx < MaxOps
    /\ \E title \in SeqTitles, body \in SeqBodies :
         LET begun == RunOperationBegin(St, title)
             acted == CASE body = "plain"  -> begun
                        [] body = "paused" -> WithPausedOutput(begun, "note")
                        [] body = "fail"   -> Fail(begun, "failed", <<>>, <<>>)
         IN Commit(IF ~Running(begun) THEN begun
                   ELSE IF ~Running(acted) THEN acted
                   ELSE RunOperationEnd(acted, title), pc)
    /\ UNCHANGED <<cli, detectedVersion, specifiedVersion, manateeSrc, manateeLib,
                   shouldGenerateRunScript, dl, runs, fnIn, fnOut>>

\* seq.Finish()
SeqFinish ==
    /\ Running(St) /\ pc = "api"
    /\ ~seq.finished
    /\ Commit(Log([St EXCEPT !.seq = Finish(seq)], "finish", "Finish"), pc)
    /\ UNCHANGED <<cli, detectedVersion, specifiedVersion, manateeSrc, manateeLib,
                   shouldGenerateRunScript, dl, runs, fnIn, fnOut>>

NextSeq == SeqRunOperation \/ SeqFinish

SpecSeq == InitSeq /\ [][NextSeq]_vars

(***************************************************************************)
(* Functions applied to inputs drawn from bounded sets.  fnIn is the       *)
(* input, fnOut the sequence of results; the run itself stays idle.        *)
(***************************************************************************)
\* the state of a program that only evaluates a function of fnIn
IdleProgram ==
    /\ cli = [arg1 |-> <<>>, manateeSrc |-> NoPath, manateeLib |-> NoPath,
              noBuild |-> FALSE, test |-> FALSE]
    /\ fs = [usrLib |-> FALSE, localLib |-> NoFile, customLib |-> NoFile,
             opt |-> Opt(FALSE, <<>>, {}),
             cacheDirs |-> {}, archives |-> {}, partials |-> {},
             outputs |-> {}]
    /\ pc = "idle"
    /\ detectedVersion = ZeroVersion
    /\ specifiedVersion = ZeroVersion
    /\ manateeSrc = NoPath
    /\ manateeLib = NoPath
    /\ shouldGenerateRunScript = FALSE
    /\ seq = NewOperationSequence
    /\ exitCode = -1
    /\ dl = IdleDownload
    /\ trace = <<>>
    /\ runs = 1
    /\ fnOut = <<>>

MaxOrd == 1

\* the Variant field of a Version literal
Variants == {"", "cnc"}

OrdVersions ==
    {[Major |-> major, Minor |-> minor, Patch |-> patch, Variant |-> variant] :
        major \in 0..MaxOrd, minor \in 0..MaxOrd, patch \in 0..MaxOrd,
        variant \in Variants}

InitOrder ==
    /\ IdleProgram
    /\ fnIn \in [a : OrdVersions, b : OrdVersions, c : OrdVersions]

\* the comparisons of a, b and c
Compare ==
    /\ fnOut = <<>>
    /\ fnOut' = <<[lt |-> Ge(fnIn.b, fnIn.a), eq |-> Eq(fnIn.a, fnIn.b),
                   gt |-> Ge(fnIn.a, fnIn.b), bc |-> Ge(fnIn.b, fnIn.c),
                   ac |-> Ge(fnIn.a, fnIn.c)]>>
    /\ UNCHANGED <<cli, fs, pc, detectedVersion, specifiedVersion, manateeSrc, manateeLib,
                   shouldGenerateRunScript, seq, exitCode, dl, trace, runs, fnIn>>

NextOrder == Compare

SpecOrder == InitOrder /\ [][NextOrder]_vars

(***************************************************************************)
(* ParseManateeVersion applied to bounded strings, on its own and as the   *)
(* version argument of main                                                *)
(***************************************************************************)
MaxLen == 5

ParseAlphabet == {"0", "1", ".", "-", "x"}

ParseStrings ==
    LET bases == UNION {[1..n -> ParseAlphabet] : n \in 0..MaxLen}
    IN bases \cup {b \o <<"-", "c", "n", "c">> : b \in bases}

InitParse ==
    /\ fnIn \in [str : ParseStrings]
    /\ fnOut = <<>>
    /\ cli = [arg1 |-> fnIn.str, manateeSrc |-> NoPath, manateeLib |-> NoPath,
              noBuild |-> FALSE, test |-> FALSE]
    /\ fs = [usrLib |-> FALSE, localLib |-> NoFile, customLib |-> NoFile,
             opt |-> Opt(FALSE, <<>>, {}),
             cacheDirs |-> {}, archives |-> {}, partials |-> {},
             outputs |-> {}]
    /\ pc = "parse"
    /\ detectedVersion = ParseManateeVersion(S_2_223_6).ver
    /\ specifiedVersion = detectedVersion
    /\ manateeSrc = NoPath
    /\ manateeLib = NoPath
    /\ shouldGenerateRunScript = FALSE
    /\ seq = NewOperationSequence
    /\ exitCode = -1
    /\ dl = IdleDownload
    /\ trace = <<>>
    /\ runs = 1

\* parse, render, parse again
ParseRender ==
    /\ fnOut = <<>>
    /\ LET p == ParseManateeVersion(fnIn.str)
           canon == Semver(p.ver)
       IN fnOut' = <<[p |-> p, canon |-> canon, again |-> ParseManateeVersion(canon)]>>
    /\ UNCHANGED <<cli, fs, pc, detectedVersion, specifiedVersion, manateeSrc, manateeLib,
                   shouldGenerateRunScript, seq, exitCode, dl, trace, runs, fnIn>>

NextParse == ParseRender \/ ParseSpecified

SpecParse == InitParse /\ [][NextParse]_vars

(***************************************************************************)
(* UpdateBy called on bounded maps.  fnIn holds the receiver (ev) and the  *)
(* argument (other) before the first call, fnOut what the two maps hold    *)
(* after each call.                                                        *)
(***************************************************************************)
MaxMerges == 2

EnvKeys == {"PATH", "HOME", "CGO_LDFLAGS"}

EnvValues == {"a", "b"}

Envs == UNION {[K -> EnvValues] : K \in SUBSET EnvKeys}

InitEnv ==
    /\ IdleProgram
    /\ fnIn \in [ev : Envs, other : Envs]

\* currEnv.UpdateBy(buildEnv), once more on the same two maps
UpdateByCall ==
    /\ Len(fnOut) < MaxMerges
    /\ LET heap == IF fnOut = <<>> THEN fnIn ELSE fnOut[Len(fnOut)]
       IN fnOut' = Append(fnOut, [ev |-> UpdateBy(heap.ev, heap.other),
                                  other |-> heap.other])
    /\ UNCHANGED <<cli, fs, pc, detectedVersion, specifiedVersion, manateeSrc, manateeLib,
                   shouldGenerateRunScript, seq, exitCode, dl, trace, runs, fnIn>>

NextEnv == UpdateByCall

SpecEnv == InitEnv /\ [][NextEnv]_vars

(***************************************************************************)
(* initManateeSources as a function of the version and of the outcomes of  *)
(* the file test and of the commands                                       *)
(***************************************************************************)
\* the names of the events of a trace, in order
Names(tr) == [i \in 1..Len(tr) |-> tr[i].what]

InitPrep ==
    /\ IdleProgram
    /\ fnIn \in [version : FlagVersions, o : PrepareOutcomes]

\* initManateeSources(version, manateeSrc)
RunInitManateeSources ==
    /\ fnOut = <<>>
    /\ LET r == initManateeSources(St, fnIn.version, fnIn.o)
       IN fnOut' = <<[cmds |-> Names(r.st.trace), err |-> r.err]>>
    /\ UNCHANGED <<cli, fs, pc, detectedVersion, specifiedVersion, manateeSrc, manateeLib,
                   shouldGenerateRunScript, seq, exitCode, dl, trace, runs, fnIn>>

NextPrep == RunInitManateeSources

SpecPrep == InitPrep /\ [][NextPrep]_vars

(***************************************************************************)
(* buildProject inside its step, as a function of the ambient environment, *)
(* the version, the flags and the outcomes of the commands                 *)
(***************************************************************************)
\* values of PATH and of a CGO_LDFLAGS set by the operator
AmbientPath == <<Entry("", Path("usr", <<>>), "bin")>>

AmbientLdFlags == PlainLdFlags(Path("usr", <<>>))

\* os.Environ() as GetEnvironmentVars returns it
Ambients ==
    {[k \in K |-> IF k = "PATH" THEN AmbientPath ELSE AmbientLdFlags] :
        K \in SUBSET {"PATH", "CGO_LDFLAGS"}}

BuildInputs ==
    [ambient : Ambients,
     version : {ParseManateeVersion(S_2_167_8).ver, ParseManateeVersion(S_2_223_6).ver},
     lib : {Path("usrlocal", <<>>)},
     test : BOOLEAN, prepareOnly : BOOLEAN, o : BuildOutcomes]

InitBuild ==
    /\ IdleProgram
    /\ fnIn \in BuildInputs

\* the step of main that calls buildProject; each command that was
\* spawned is recorded with its environment
RunBuildProject ==
    /\ fnOut = <<>>
    /\ LET begun == RunOperationBegin(St, IF fnIn.prepareOnly THEN TitleExport
                                          ELSE TitleBuild)
           r     == buildProject(begun, fnIn.test, fnIn.prepareOnly, fnIn.o)
           cmds  == Whats(r.st.trace, "effect")
           env   == buildCommandEnv(fnIn.ambient, fnIn.version, OutDir(fnIn.version),
                                    fnIn.lib)
       IN fnOut' = <<[spawned |-> [i \in 1..Len(cmds) |-> [cmd |-> cmds[i], env |-> env]],
                      err |-> r.err]>>
    /\ UNCHANGED <<cli, fs, pc, detectedVersion, specifiedVersion, manateeSrc, manateeLib,
                   shouldGenerateRunScript, seq, exitCode, dl, trace, runs, fnIn>>

NextBuild == RunBuildProject

SpecBuild == InitBuild /\ [][NextBuild]_vars

(***************************************************************************)
(* WithPausedOutput called by the owner of the sequence between the steps; *)
(* fnOut counts the calls                                                  *)
(***************************************************************************)
MaxPauses == 2

\* seq.WithPausedOutput(fn)
SeqWithPausedOutput ==
    /\ Running(St) /\ pc = "api"
    /\ Len(fnOut) < MaxPauses
    /\ Commit(WithPausedOutput(St, "note"), pc)
    /\ fnOut' = Append(fnOut, "WithPausedOutput")
    /\ UNCHANGED <<cli, detectedVersion, specifiedVersion, manateeSrc, manateeLib,
                   shouldGenerateRunScript, dl, runs, fnIn>>

NextPause == SeqRunOperation \/ SeqWithPausedOutput

SpecPause == InitSeq /\ [][NextPause]_vars

(***************************************************************************)
(* The start of main: the -project-path flag and the project-local config  *)
(* file.  fnIn holds the directory given on the command line and, for each *)
(* directory, the state of its .manabuild.json; fnOut records the value of *)
(* *workingDir at the lookup and after flag.Parse.                         *)
(***************************************************************************)
\* TryConfig(workingDir, conf): the error returned and the fields of conf
TryConfig(workingDir, files) ==
    CASE files[workingDir] = "absent" ->
             [err |-> "ErrNoConfig", isLoaded |-> FALSE, srcPath |-> ""]
      [] files[workingDir] = "valid" ->
             [err |-> "nil", isLoaded |-> TRUE, srcPath |-> workingDir]
      [] OTHER ->
             [err |-> "failed to load config", isLoaded |-> FALSE, srcPath |-> workingDir]

InitConf ==
    /\ IdleProgram
    /\ fnIn \in LET dirs == {".", "proj", "other"}
                 IN [projectPath : dirs,
                     files : [dirs -> {"absent", "valid", "unreadable", "malformed"}]]

\* cmd.go 132-137: the flag is declared, TryConfig is called with its value
ConfLookup ==
    /\ fnOut = <<>> /\ exitCode = -1
    /\ LET workingDir == "."
           r == TryConfig(workingDir, fnIn.files)
       IN /\ fnOut' = <<[at |-> "TryConfig", workingDir |-> workingDir, conf |-> r]>>
          /\ exitCode' = IF r.err \notin {"nil", "ErrNoConfig"} THEN 1 ELSE exitCode
    /\ UNCHANGED <<cli, fs, pc, detectedVersion, specifiedVersion, manateeSrc, manateeLib,
                   shouldGenerateRunScript, seq, dl, trace, runs, fnIn>>

\* cmd.go 143: flag.Parse() stores the command line's -project-path
FlagParse ==
    /\ Len(fnOut) = 1 /\ exitCode = -1
    /\ fnOut' = Append(fnOut, [at |-> "flag.Parse", workingDir |-> fnIn.projectPath,
                               conf |-> fnOut[1].conf])
    /\ UNCHANGED <<cli, fs, pc, detectedVersion, specifiedVersion, manateeSrc, manateeLib,
                   shouldGenerateRunScript, seq, exitCode, dl, trace, runs, fnIn>>

NextConf == ConfLookup \/ FlagParse

SpecConf == InitConf /\ [][NextConf]_vars

(***************************************************************************)
(* Properties                                                              *)
(***************************************************************************)
Last(tr) == tr[Len(tr)]

HasEvent(tr, ev, what) == \E i \in 1..Len(tr) : tr[i].ev = ev /\ tr[i].what = what

\* the positions of main inside step 1
InSearchStep == pc \in {"download", "search_lib", "search_cmp", "search_end"}

\* the version the command line asks for
Requested == ParseManateeVersion(cli.arg1).ver

\* the run was given a version that passed the allow-list, no --manatee-lib,
\* and the version differs from the detected one
MismatchRun ==
    /\ pc \notin {"detect", "parse", "check"}
    /\ cli.manateeLib = NoPath
    /\ cli.arg1 # <<>>
    /\ ~(Requested.Major = detectedVersion.Major
         /\ Requested.Minor = detectedVersion.Minor
         /\ Requested.Patch = detectedVersion.Patch)

MismatchReported ==
    /\ trace # <<>>
    /\ Last(trace).ev = "fail"
    /\ Last(trace).what = "version mismatch"
    /\ Last(trace).a = Semver(detectedVersion)
    /\ Last(trace).b = Semver(Requested)

AtOrAbove(v, other) ==
    \/ v.Major > other.Major
    \/ v.Major = other.Major /\ v.Minor > other.Minor
    \/ v.Major = other.Major /\ v.Minor = other.Minor /\ v.Patch >= other.Patch

IsPlain(env, src, lib) ==
    /\ env.CGO_CPPFLAGS = <<Entry("-I", src, "")>>
    /\ env.CGO_LDFLAGS = <<Entry("-l", NoPath, "manatee"), Entry("-L", lib, "")>>

IsExtended(env, src, lib) ==
    /\ \A d \in {"finlib", "fsa3", "hat-trie"} :
          \E i \in 1..Len(env.CGO_CPPFLAGS) : env.CGO_CPPFLAGS[i] = Entry("-I", src, d)
    /\ \A l \in {"hat-trie", "fsa3"} :
          \E i \in 1..Len(env.CGO_LDFLAGS) : env.CGO_LDFLAGS[i] = Entry("-l", NoPath, l)

\* C2: every version 2.207.x gets the plain flag set, and 2.208.0 and every
\* version above it gets the extended set
C2_ThresholdExact ==
    fnOut # <<>> =>
        /\ (fnIn.version.Major = 2 /\ fnIn.version.Minor = 207
              => IsPlain(fnOut[1], fnIn.src, fnIn.lib))
        /\ (AtOrAbove(fnIn.version, NewVersion(2, 208, 0))
              => IsExtended(fnOut[1], fnIn.src, fnIn.lib))

\* C3: every entry of KnownVersions parses, and a run that requests an entry
\* is not rejected as unsupported by the allow-list test of main
C3_KnownVersionsAccepted ==
    /\ \A i \in 1..Len(KnownVersions) : ~ParseManateeVersion(KnownVersions[i]).err
    /\ ~(/\ SliceContains(KnownVersions, cli.arg1)
         /\ pc = "check" /\ exitCode # -1
         /\ HasEvent(trace, "exit", "Unsupported version"))

\* the external actions C4 lists: download, extraction, file removal,
\* configure/make, code generation, test, compile
IsSideEffect(e) == e.ev = "effect"

\* C4: once the effective version is resolved and its canonical string is not
\* in KnownVersions, the run is at the allow-list test or has exited there with
\* status 1, and no side effect has occurred
C4_UnknownRejectedEarly ==
    (pc \notin {"detect", "parse"}
     /\ ~SliceContains(KnownVersions, Semver(specifiedVersion)))
        => /\ pc = "check"
           /\ exitCode \in {-1, 1}
           /\ \A i \in 1..Len(trace) : ~IsSideEffect(trace[i])

\* C4 witness: a detected, parseable version outside the allow-list was rejected
C4_Witness ==
    /\ pc = "check" /\ exitCode = 1 /\ cli.arg1 = <<>>
    /\ ~SliceContains(KnownVersions, Semver(specifiedVersion))
    /\ Last(trace).what = "Unsupported version"

\* C5: a diagnostic printed by Fail is the last thing the run does: it is
\* printed once, with the progress indicator stopped, the process has exited
\* with status 1, and neither the rest of the step nor a later step follows
C5_FailFast ==
    \A i \in 1..Len(trace) :
        trace[i].ev = "fail" =>
            /\ i = Len(trace)
            /\ exitCode = 1
            /\ trace[i].sp # "active"
            /\ ~Active(seq)
            /\ pc \in {"download", "search_lib", "search_cmp", "prepare", "build"}

\* C5 witness: the preparing step failed after the first two steps completed
C5_Witness ==
    /\ exitCode = 1 /\ pc = "prepare"
    /\ Last(trace).ev = "fail"
    /\ HasEvent(trace, "done", TitleSearch)
    /\ seq.sp = "stopped"

\* what the run shows of its operations: the banner and the completion line
\* of each RunOperation, and the removal of the previous output
IsMark(e) == e.ev \in {"start", "done"} \/ (e.ev = "effect" /\ e.what = "rm_binaries")

Marks == SelectSeq(trace, IsMark)

Mark(e) == <<e.ev, e.what>>

\* the five operations in their order; the fourth carries one of two titles
Plan(fourth) ==
    <<<<"start", TitleSearch>>, <<"done", TitleSearch>>,
      <<"effect", "rm_binaries">>,
      <<"start", TitlePrepare>>, <<"done", TitlePrepare>>,
      <<"start", fourth>>, <<"done", fourth>>,
      <<"start", TitleGenerate>>, <<"done", TitleGenerate>>>>

\* C6: the operations start in the fixed order (searching, clearing, preparing,
\* building, generating); each one starts only after the one before it has
\* completed, none starts after a failure, and none starts while the progress
\* indicator of another is still running
C6_StepOrder ==
    /\ \E fourth \in {TitleBuild, TitleExport} :
          /\ Len(Marks) <= Len(Plan(fourth))
          /\ \A k \in 1..Len(Marks) : Mark(Marks[k]) = Plan(fourth)[k]
    /\ \A i \in 1..Len(trace) :
          IsMark(trace[i]) /\ trace[i].ev # "done" =>
              /\ trace[i].sp # "active"
              /\ \A j \in 1..(i - 1) : trace[j].ev \notin {"fail", "exit", "panic"}

\* C6 witness: a run in which all five operations ran to completion
C6_Witness ==
    /\ pc = "done" /\ exitCode = 0
    /\ Len(Marks) = Len(Plan(TitleBuild))
    /\ Mark(Last(Marks)) = <<"done", TitleGenerate>>

\* the mirrors were tried in list order, each at most once
MirrorsInOrder ==
    /\ Len(dl.attempts) <= NumMirrors
    /\ \A i \in 1..Len(dl.attempts) : dl.attempts[i].mirror = i

\* the HTTP requests of the attempts that got as far as sending one
Requests ==
    LET sent == SelectSeq(dl.attempts, LAMBDA a : a.outcome # "create_err")
    IN [i \in 1..Len(sent) |-> HttpEffect[sent[i].mirror]]

\* the requests and extractions the run performed, in order
AcquisitionEffects ==
    SelectSeq(Whats(trace, "effect"),
              LAMBDA w : w = "extract" \/ \E m \in 1..NumMirrors : w = HttpEffect[m])

\* C7 as stated: the first mirror that answers with a success status is the
\* one used and no mirror is tried after it
C7_FirstSuccessStatusUsed ==
    /\ MirrorsInOrder
    /\ \A i \in 1..Len(dl.attempts) :
          AnsweredSuccess(dl.attempts[i].outcome) =>
              /\ i = Len(dl.attempts)
              /\ dl.used = i

\* C7 as amended: the mirrors are tried in list order, each at most once; the
\* first mirror whose download completes (success status and the body copied
\* in full) is the one used and the one whose archive is unpacked; no mirror is
\* tried after it; a mirror that answers with a success status but whose body
\* cannot be copied counts as failed
C7_FirstCompletedDownloadUsed ==
    /\ MirrorsInOrder
    /\ dl.used \in 0..NumMirrors
    /\ \A i \in 1..Len(dl.attempts) :
          (dl.attempts[i].outcome = "ok") = (dl.used = i /\ i = Len(dl.attempts))
    /\ (dl.used # 0 /\ dl.unpack = "ok" =>
          /\ dl.path = OutDir(specifiedVersion) /\ dl.err = "nil"
          /\ AcquisitionEffects = Requests \o <<"extract">>)

\* C7 witness: only the third mirror delivered, and the call returned its tree
C7_Witness ==
    /\ dl.phase = "returned" /\ dl.used = NumMirrors /\ dl.err = "nil"
    /\ dl.path = OutDir(specifiedVersion)
    /\ Len(dl.attempts) = NumMirrors

AllMirrorsFailed ==
    /\ Len(dl.attempts) >= NumMirrors
    /\ \A i \in 1..Len(dl.attempts) : dl.attempts[i].outcome # "ok"

\* C8: when every mirror has failed the call has returned the error that names
\* --manatee-src and no path, nothing was extracted and no mirror was retried
C8_AllMirrorsFailed ==
    AllMirrorsFailed =>
        /\ dl.phase = "returned"
        /\ dl.err = ErrManual
        /\ dl.path = NoPath
        /\ dl.unpack = "none"
        /\ ~HasEvent(trace, "effect", "extract")
        /\ Len(dl.attempts) = NumMirrors
        /\ (pc # "download" => manateeSrc = NoPath /\ exitCode = 1)

\* C8 witness: three failed attempts, then the step failed with that error
C8_Witness ==
    /\ AllMirrorsFailed /\ pc = "download" /\ exitCode = 1
    /\ Last(trace).ev = "fail" /\ Last(trace).what = ErrManual

\* the cache directory of the requested version was there when the call began
CachePopulatedAtEntry ==
    /\ dl.phase \notin {"idle", "explore"}
    /\ dl.unpack = "none"
    /\ dl.err # ErrExplore
    /\ Semver(specifiedVersion) \in fs.cacheDirs

\* C9: a call that finds the cache directory returns it and performs no HTTP
\* request and no extraction
C9_CacheHit ==
    CachePopulatedAtEntry =>
        /\ dl.phase = "returned"
        /\ dl.path = OutDir(specifiedVersion)
        /\ dl.err = "nil"
        /\ dl.attempts = <<>>
        /\ AcquisitionEffects = <<>>

\* C9 witness: the second run of the same command line, after the first run
\* downloaded and unpacked the archive, returns the cached tree
C9_Witness ==
    /\ runs = 2 /\ dl.phase = "returned" /\ dl.cached
    /\ Semver(specifiedVersion) \in fs.archives
    /\ dl.attempts = <<>>

OverrideUnusable ==
    /\ cli.manateeLib # NoPath
    /\ LET lib == LibAt(fs, cli.manateeLib)
       IN ~lib.exists \/ ~lib.marked \/ ParseManateeVersion(lib.text).err

\* C11: with --manatee-lib given and no usable marker in <override>/libmanatee.so,
\* autodetection has returned an error: the run has stopped at the detection with
\* the diagnostic of main and status 1, and no other source gave a version
C11_OverrideFailureIsHardError ==
    (OverrideUnusable /\ (pc # "detect" \/ exitCode # -1)) =>
        /\ pc = "detect"
        /\ exitCode = 1
        /\ Last(trace).ev = "exit"
        /\ Last(trace).what = "Failed to find manatee-open or determine its version"

\* C12: without --manatee-lib, /opt/manatee is listed only if neither /usr/lib
\* nor /usr/local/lib holds libmanatee.so, and when a standard location holds
\* the library the detected version is the one embedded in the first such
\* library (the model gives a version text to /usr/local/lib only, so the
\* second part is stated for runs where /usr/lib holds none)
C12_StandardLocationsFirst ==
    (cli.manateeLib = NoPath /\ (pc # "detect" \/ exitCode # -1)) =>
        /\ (fs.usrLib \/ fs.localLib.exists => ~HasEvent(trace, "scan", "/opt/manatee"))
        /\ (~fs.usrLib /\ fs.localLib.exists /\ pc # "detect" =>
               detectedVersion = ParseManateeVersion(fs.localLib.text).ver)

\* the versions of the names that parse and whose canonical string is allow-listed
Qualifying(entries) ==
    {ParseManateeVersion(entries[i]).ver :
        i \in {j \in 1..Len(entries) :
                  /\ ~ParseManateeVersion(entries[j]).err
                  /\ \E k \in 1..Len(KnownVersions) :
                        KnownVersions[k] = Semver(ParseManateeVersion(entries[j]).ver)}}

IsMaxOf(v, versions) == v \in versions /\ \A w \in versions : AtOrAbove(v, w)

\* C13: the scan of a readable /opt/manatee gives the maximum of the qualifying
\* names; when none qualifies it gives the zero version, and main has then
\* exited with status 1 at the detection, before any step
C13_ScanPicksMaximum ==
    (fs.opt.readable /\ HasEvent(trace, "scan", "/opt/manatee")) =>
        IF Qualifying(fs.opt.entries) = {}
        THEN /\ IsZero(detectedVersion)
             /\ pc = "detect" /\ exitCode = 1
             /\ Last(trace).what = "Autodetection has not found any suitable Manatee version"
             /\ Whats(trace, "start") = <<>>
        ELSE /\ IsMaxOf(detectedVersion, Qualifying(fs.opt.entries))
             /\ pc = "parse" /\ exitCode = -1

\* C13 witness: the maximum stands first, 2.208 does not qualify, and 2.167.10
\* is above 2.167.8
C13_Witness ==
    /\ fs.opt.entries = <<S_2_167_10, S_2_208, S_2_167_8>>
    /\ pc = "parse"
    /\ detectedVersion = NewVersion(2, 167, 10)

\* the source directory in use is one the run itself found or unpacked under
\* /tmp; a directory given with --manatee-src is taken as it is
SourceChecked ==
    /\ manateeSrc # NoPath
    /\ manateeSrc.kind = "cache"
    /\ dl.phase = "returned" /\ dl.err = "nil"

\* the library directory in use holds libmanatee.so
LibPresent == manateeLib # NoPath /\ LibAt(fs, manateeLib).exists

\* C14: whenever the preparing or the building step has started, the source
\* directory in use was checked by the run and the library directory in use
\* holds libmanatee.so
C14_SourceLocationChecked ==
    \A i \in 1..Len(trace) :
        (trace[i].ev = "start" /\ trace[i].what \in {TitlePrepare, TitleBuild}) =>
            SourceChecked /\ LibPresent

\* the run reported a failure
FailureReported == \E i \in 1..Len(trace) : trace[i].ev \in {"fail", "exit", "panic"}

\* the launcher the run needed was produced: the binary renamed, the script written
LauncherDone ==
    (shouldGenerateRunScript /\ ~cli.noBuild) =>
        /\ HasEvent(trace, "effect", "rename")
        /\ HasEvent(trace, "effect", "script")

\* C15: a run that reported a failure has a non-zero exit status, and a run that
\* ended with status zero reported none and produced the launcher it needed
C15_ExitStatus ==
    /\ (FailureReported => exitCode \notin {-1, 0})
    /\ (exitCode = 0 => ~FailureReported /\ LauncherDone)

\* C16: no library function ends the process (no panic), and every run that
\* ended in failure ended with the diagnostic of OperationSequence.Fail
C16_SingleFailPath ==
    /\ \A i \in 1..Len(trace) : trace[i].ev # "panic"
    /\ (exitCode \notin {-1, 0} => Last(trace).ev = "fail")

\* C17: when a run has ended in failure, neither <binary> nor <binary>.bin is
\* present in the project directory
C17_NoStaleOutputAfterFailure ==
    exitCode \notin {-1, 0} => fs.outputs = {}

\* the library directory in use is one of the locations the resolver probes
InStandardLocation(dir) == dir.kind \in {"usr", "usrlocal"}

\* the binary was renamed and the script written in its place
LauncherProduced ==
    /\ HasEvent(trace, "effect", "rename")
    /\ HasEvent(trace, "effect", "script")

\* C18: in a building run that has completed, the launcher was produced exactly
\* when the library directory in use lies outside /usr/lib and /usr/local/lib
C18_LauncherIffNonStandard ==
    (pc = "done" /\ ~cli.noBuild) =>
        (LauncherProduced <=> ~InStandardLocation(manateeLib))

\* C19: every console write of a step's action is made while the progress
\* indicator is not running
C19_OutputOnlyWhilePaused ==
    \A i \in 1..Len(trace) : trace[i].ev = "out" => trace[i].sp # "active"

\* C20: a RunOperation on a finished sequence panics: nothing follows the panic,
\* no banner is printed, the indicator is not started and the step index is the
\* number of steps started before; after Finish no step ever starts; and a
\* sequence that is not finished has not panicked
C20_RunAfterFinishPanics ==
    /\ Len(Whats(trace, "start")) = seq.currIdx
    /\ \A i \in 1..Len(trace) :
          trace[i].ev = "panic" =>
              /\ i = Len(trace)
              /\ seq.finished /\ exitCode = 2
              /\ ~Active(seq) /\ trace[i].sp = seq.sp
              /\ \E j \in 1..(i - 1) : trace[j].ev = "finish"
    /\ \A i \in 1..Len(trace) :
          trace[i].ev = "finish" =>
              \A j \in (i + 1)..Len(trace) : trace[j].ev = "panic"
    /\ (~seq.finished => ~FailureReported \/ Last(trace).ev = "fail")

\* C20 witness: one step ran, Finish was called, the next RunOperation panicked
C20_Witness ==
    /\ Len(trace) > 1 /\ Last(trace).ev = "panic"
    /\ trace[Len(trace) - 1].ev = "finish"
    /\ seq.currIdx = 1 /\ seq.sp = "stopped"

SameTriple(a, b) == a.Major = b.Major /\ a.Minor = b.Minor /\ a.Patch = b.Patch

\* C21: of a < b (b.Ge(a)), a = b (a.Eq(b)) and a > b (a.Ge(b)) exactly one
\* holds, greater-than is transitive, and two versions with the same triple
\* compare equal whatever their variants
C21_StrictTotalOrder ==
    fnOut # <<>> =>
        LET r == fnOut[1]
        IN /\ (r.lt \/ r.eq \/ r.gt)
           /\ ~(r.lt /\ r.eq) /\ ~(r.lt /\ r.gt) /\ ~(r.eq /\ r.gt)
           /\ (r.gt /\ r.bc => r.ac)
           /\ (SameTriple(fnIn.a, fnIn.b) => r.eq /\ ~r.lt /\ ~r.gt)
           /\ (r.eq => SameTriple(fnIn.a, fnIn.b))

\* C21 witness: equal triples with different variants were compared
C21_Witness ==
    /\ fnOut # <<>>
    /\ SameTriple(fnIn.a, fnIn.b) /\ fnIn.a.Variant # fnIn.b.Variant
    /\ fnOut[1].eq /\ fnOut[1].bc

\* a decimal integer: an optional sign and at least one digit
NumericItem(c) ==
    LET body == IF c # <<>> /\ c[1] \in {"+", "-"} THEN Tail(c) ELSE c
    IN body # <<>> /\ \A i \in 1..Len(body) : IsDigit(body[i])

\* the components of a version string
Items(str) == Split(TrimSuffix(str, <<"-", "c", "n", "c">>), ".")

\* two or three components, all numeric
WellFormed(str) ==
    /\ Len(Items(str)) \in {2, 3}
    /\ \A i \in 1..Len(Items(str)) : NumericItem(Items(str)[i])

\* a numeric component without sign and leading zeros; a minus is kept
\* in front of a number other than zero
NormItem(c) ==
    LET body == IF c[1] \in {"+", "-"} THEN Tail(c) ELSE c
        first == IF \A i \in 1..Len(body) : body[i] = "0" THEN Len(body)
                 ELSE CHOOSE i \in 1..Len(body) :
                          body[i] # "0" /\ \A j \in 1..(i - 1) : body[j] = "0"
        digits == SubSeq(body, first, Len(body))
    IN IF c[1] = "-" /\ digits # <<"0">> THEN <<"-">> \o digits ELSE digits

\* major.minor.patch of a well-formed string, patch 0 when it has none
Normalized(str) ==
    LET items == Items(str)
    IN NormItem(items[1]) \o <<".">> \o NormItem(items[2]) \o <<".">>
       \o (IF Len(items) = 3 THEN NormItem(items[3]) ELSE <<"0">>)

\* C22: parsing a well-formed version string and rendering it with Semver
\* gives the normalized major.minor.patch text, with patch 0 when the input
\* had two components, and parsing that text again gives an equal version
C22_RoundTrip ==
    fnOut # <<>> /\ WellFormed(fnIn.str) =>
        LET r == fnOut[1]
        IN /\ ~r.p.err
           /\ r.canon = Normalized(fnIn.str)
           /\ (Len(Items(fnIn.str)) = 2 => r.p.ver.Patch = 0)
           /\ ~r.again.err
           /\ Eq(r.again.ver, r.p.ver)
           /\ r.again.ver = r.p.ver

\* C22 witness: "01.1-cnc" was parsed and rendered as "1.1.0"
C22_Witness ==
    /\ fnOut # <<>>
    /\ fnIn.str = <<"0", "1", ".", "1", "-", "c", "n", "c">>
    /\ fnOut[1].canon = <<"1", ".", "1", ".", "0">>
    /\ ~fnOut[1].again.err

\* C23: ParseManateeVersion succeeds exactly when the string, without a
\* trailing "-cnc", has two or three components that are all numeric; main
\* goes on past the version argument only with the version of a successful
\* parse, and ends with status 1 and a diagnostic otherwise
C23_ParseSucceedsIffWellFormed ==
    /\ (fnOut # <<>> => (~fnOut[1].p.err <=> WellFormed(fnIn.str)))
    /\ (cli.arg1 # <<>> /\ pc = "check" =>
            /\ WellFormed(cli.arg1)
            /\ Semver(specifiedVersion) = Normalized(cli.arg1))
    /\ (exitCode # -1 =>
            /\ exitCode = 1 /\ pc = "parse" /\ ~WellFormed(cli.arg1)
            /\ Last(trace).ev = "exit"
            /\ Last(trace).what = "Failed to parse specified version")

\* C23 witness: "1.x" failed to parse after its major number was read, and
\* main ended on it
C23_Witness ==
    /\ fnOut # <<>>
    /\ fnIn.str = <<"1", ".", "x">>
    /\ fnOut[1].p.err
    /\ exitCode = 1

\* C24: a successfully parsed version is never taken for the zero sentinel
C24_ZeroSentinelDistinct ==
    fnOut # <<>> /\ ~fnOut[1].p.err =>
        ~IsZero(fnOut[1].p.ver) /\ fnOut[1].p.ver # ZeroVersion

\* merged holds overlay's value for every key of overlay, base's value for
\* every key of base alone, and no other key
RightBiased(merged, base, overlay) ==
    /\ DOMAIN merged = DOMAIN base \cup DOMAIN overlay
    /\ \A k \in DOMAIN overlay : merged[k] = overlay[k]
    /\ \A k \in DOMAIN base \ DOMAIN overlay : merged[k] = base[k]

\* C25: after UpdateBy the merged map is the right-biased union of base and
\* overlay; a second merge of the same overlay changes nothing; an empty
\* overlay leaves the base as it was
C25_MergeRightBiasedIdempotent ==
    /\ \A i \in 1..Len(fnOut) : RightBiased(fnOut[i].ev, fnIn.ev, fnIn.other)
    /\ \A i \in 2..Len(fnOut) : fnOut[i].ev = fnOut[i - 1].ev
    /\ (fnOut # <<>> /\ DOMAIN fnIn.other = {} => fnOut[1].ev = fnIn.ev)

\* C25 witness: an overlay that overwrites one key of the base and adds
\* another was merged twice, and a key of the base alone survived
C25_Witness ==
    /\ Len(fnOut) = 2
    /\ \E k \in DOMAIN fnIn.ev \cap DOMAIN fnIn.other :
           fnIn.ev[k] # fnIn.other[k] /\ fnOut[2].ev[k] = fnIn.other[k]
    /\ \E k \in DOMAIN fnIn.other : k \notin DOMAIN fnIn.ev
    /\ \E k \in DOMAIN fnIn.ev : k \notin DOMAIN fnIn.other /\ fnOut[2].ev[k] = fnIn.ev[k]

\* C26: after the merge the base map and the overlay map hold what they
\* held before it
C26_MergeLeavesInputsIntact ==
    \A i \in 1..Len(fnOut) : fnOut[i].ev = fnIn.ev /\ fnOut[i].other = fnIn.other

\* the commands of cmds that come after ./configure
AfterConfigure(cmds) ==
    IF \A i \in 1..Len(cmds) : cmds[i] # "configure" THEN <<>>
    ELSE LET k == CHOOSE i \in 1..Len(cmds) : cmds[i] = "configure"
         IN SubSeq(cmds, k + 1, Len(cmds))

\* what the prerequisite build does after a successful ./configure for a
\* version that is at or above the threshold or not
PrerequisitesAsRequired(atOrAbove, o, r) ==
    IF atOrAbove
    THEN /\ AfterConfigure(r.cmds) = IF o.hat THEN <<"make_hat_trie", "make_fsa3">>
                                     ELSE <<"make_hat_trie">>
         /\ r.err = (~o.hat \/ ~o.fsa)
    ELSE AfterConfigure(r.cmds) = <<>> /\ ~r.err

\* ./configure was run and succeeded
Configured(o, r) ==
    /\ \E i \in 1..Len(r.cmds) : r.cmds[i] = "configure"
    /\ o.configure

\* C27: after a successful ./configure, for every version at or above 2.208.0,
\* 2.208.0 itself included, make runs in hat-trie and then, only if that
\* succeeded, in fsa3, and a failure of either is returned; below the
\* threshold neither runs
C27_PrerequisitesAtOrAboveThreshold ==
    fnOut # <<>> /\ Configured(fnIn.o, fnOut[1]) =>
        PrerequisitesAsRequired(AtOrAbove(fnIn.version, NewVersion(2, 208, 0)),
                                fnIn.o, fnOut[1])

\* C28: `make clean` runs, before ./configure, exactly when config.hh is
\* present; when the presence test or `make clean` fails ./configure is
\* not run and an error is returned; without config.hh ./configure is the
\* first command
C28_CleanBeforeConfigure ==
    fnOut # <<>> =>
        LET r == fnOut[1]
            o == fnIn.o
            first == IF r.cmds = <<>> THEN "" ELSE r.cmds[1]
            second == IF Len(r.cmds) < 2 THEN "" ELSE r.cmds[2]
        IN /\ (o.isFile = "err" => r.cmds = <<>> /\ r.err)
           /\ (o.isFile = "yes" => first = "make_clean")
           /\ (o.isFile = "yes" /\ ~o.clean => r.cmds = <<"make_clean">> /\ r.err)
           /\ (o.isFile = "yes" /\ o.clean => second = "configure")
           /\ (o.isFile = "no" => first = "configure")
           /\ \A i \in 1..Len(r.cmds) :
                  /\ (r.cmds[i] = "make_clean" => i = 1 /\ o.isFile = "yes")
                  /\ (r.cmds[i] = "configure" => i = (IF o.isFile = "yes" THEN 2 ELSE 1))

\* C28 witness: config.hh was present, `make clean` failed and nothing
\* else was run
C28_Witness ==
    /\ fnOut # <<>>
    /\ fnIn.o.isFile = "yes" /\ ~fnIn.o.clean /\ fnIn.o.configure
    /\ fnOut[1].cmds = <<"make_clean">>
    /\ fnOut[1].err

\* the commands of a build, in order
BuildPlan(test) ==
    IF test THEN <<"generate", "test", "compile">> ELSE <<"generate", "compile">>

\* the command returned success
Succeeded(o, cmd) ==
    CASE cmd = "generate" -> o.generate
      [] cmd = "test" -> o.test
      [] cmd = "compile" -> o.build

\* the variables of an exported environment are the ambient ones with the
\* derived ones laid over them
MergedEnvironment(env, ambient, derived) ==
    /\ \A k \in DOMAIN derived : <<k, derived[k]>> \in env.vars
    /\ \A k \in DOMAIN ambient \ DOMAIN derived : <<k, ambient[k]>> \in env.vars
    /\ Cardinality(env.vars) = Cardinality(DOMAIN ambient \cup DOMAIN derived)

\* C29: outside no-build mode the commands run are a prefix of generate,
\* test (only with the test flag), compile; each runs only after the one before
\* it succeeded; the build stops at the first failure and returns it; and each
\* command gets the ambient environment overlaid with the derived CGO set
C29_BuildCommandsInOrder ==
    fnOut # <<>> /\ ~fnIn.prepareOnly /\ fnIn.o.verInfo /\ fnIn.o.commit =>
        LET r    == fnOut[1]
            n    == Len(r.spawned)
            plan == BuildPlan(fnIn.test)
            derived == BuildEnv(fnIn.version, OutDir(fnIn.version), fnIn.lib)
        IN /\ n >= 1 /\ n <= Len(plan)
           /\ \A i \in 1..n : r.spawned[i].cmd = plan[i]
           /\ \A i \in 2..n : Succeeded(fnIn.o, plan[i - 1])
           /\ r.err = ~Succeeded(fnIn.o, plan[n])
           /\ (~r.err => n = Len(plan))
           /\ \A i \in 1..n : MergedEnvironment(r.spawned[i].env, fnIn.ambient, derived)

\* C29 witness: with the test flag and an ambient CGO_LDFLAGS, generate
\* succeeded and the tests failed: compile was not run, the error was returned
C29_Witness ==
    /\ fnOut # <<>>
    /\ ~fnIn.prepareOnly /\ fnIn.test
    /\ fnIn.o.generate /\ ~fnIn.o.test /\ fnIn.o.build
    /\ DOMAIN fnIn.ambient = {"PATH", "CGO_LDFLAGS"}
    /\ Len(fnOut[1].spawned) = 2
    /\ fnOut[1].spawned[2].cmd = "test"
    /\ <<"CGO_LDFLAGS", AmbientLdFlags>> \notin fnOut[1].spawned[2].env.vars
    /\ <<"PATH", AmbientPath>> \in fnOut[1].spawned[2].env.vars
    /\ fnOut[1].err

\* C30: a call of WithPausedOutput runs the callback once, with the
\* indicator not active, and returns with the indicator active exactly if
\* it was active on entry
C30_PausePreservesIndicator ==
    [][fnOut' # fnOut =>
          /\ trace' = Append(trace, Last(trace'))
          /\ Last(trace').ev = "out" /\ Last(trace').what = "note"
          /\ Last(trace').sp # "active"
          /\ (Active(seq') <=> Active(seq))
          /\ exitCode' = -1]_vars

\* the preparing step has begun
PrepareBegun == HasEvent(trace, "start", TitlePrepare)

\* the libmanatee.so of the directory used for linking carries the version
LinkedLibraryIs(version) ==
    LET lib == LibAt(fs, manateeLib)
        p   == ParseManateeVersion(lib.text)
    IN lib.exists /\ lib.marked /\ ~p.err /\ Eq(p.ver, version)

\* C31: once the preparing step has begun, the version the build targets is
\* the version embedded in the libmanatee.so of the library directory in use
\* (stated for the directories whose library text the run can be shown:
\* /usr/local/lib and a --manatee-lib directory)
C31_TargetMatchesLinkedLibrary ==
    PrepareBegun /\ manateeLib.kind \in {"usrlocal", "custom"} =>
        LinkedLibraryIs(specifiedVersion)

\* C32: after a download in which every mirror failed, neither a complete nor
\* an incomplete archive of the version is left in /tmp
C32_NoArchiveAfterFailedDownload ==
    AllMirrorsFailed =>
        Semver(specifiedVersion) \notin (fs.archives \cup fs.partials)

\* C33: the environment exported to a command holds one entry for each
\* variable and no empty string
C33_ExportOneEntryPerKey ==
    \A i \in 1..Len(fnOut) :
        \A j \in 1..Len(fnOut[i].spawned) :
            LET env == fnOut[i].spawned[j].env
            IN /\ env.blank = 0
               /\ Cardinality(env.vars) =
                      Cardinality(DOMAIN fnIn.ambient \cup {"CGO_CXXFLAGS", "CGO_CPPFLAGS",
                                                            "CGO_LDFLAGS"})

\* C34: in -no-build mode the output files of an earlier build stay in the
\* project directory
C34_NoBuildKeepsOutputs ==
    cli.noBuild => fs.outputs \in Outputs

\* C35: .manabuild.json is looked up in the directory given by -project-path,
\* the directory the commands of the build are later run in
C35_ConfigLookedUpInProjectPath ==
    /\ (fnOut # <<>> => fnOut[1].workingDir = fnIn.projectPath)
    /\ (Len(fnOut) = 2 => fnOut[1].workingDir = fnOut[2].workingDir)

====
